---- MODULE Spec2Model ----
(***************************************************************************)
(* create-lithia-app: the run() handler of src/cli/index.ts as a state     *)
(* machine.  One run of the command: capability probes, the five questions *)
(* of the Answer Collector, the overwrite prompt, the filesystem and       *)
(* external-process steps, the Reporter.  The disk state of the target     *)
(* directory, the template fetched by the clone and the outcome of every   *)
(* external call are chosen by the environment.                            *)
(***************************************************************************)
EXTENDS Integers, Sequences, FiniteSets, TLC

\* Longest raw project name typed at the first question.
MaxNameLen == 3

\* Characters a user may type: a legal one, a blank, an illegal (uppercase) one.
Chars == {"a", " ", "A"}

RECURSIVE SeqsUpTo(_)
SeqsUpTo(n) ==
  IF n = 0 THEN {<<>>}
  ELSE LET S == SeqsUpTo(n - 1)
       IN  S \cup {Append(s, c) : s \in {t \in S : Len(t) = n - 1}, c \in Chars}

RawNames == SeqsUpTo(MaxNameLen)

---------------------------------------------------------------------------
\* String.prototype.trim, as used by the pName question's format callback.

RECURSIVE trimStart(_)
trimStart(v) ==
  IF v # <<>> /\ Head(v) = " " THEN trimStart(Tail(v)) ELSE v

RECURSIVE trimEnd(_)
trimEnd(v) ==
  IF v # <<>> /\ v[Len(v)] = " " THEN trimEnd(SubSeq(v, 1, Len(v) - 1)) ELSE v

trim(v) == trimEnd(trimStart(v))

\* format: (v) => v.trim()
format_noTrim(v) == v
format(v) == trim(v)

\* validateProjectName (lithia/utils): legal package name rule; the surrounding
\* whitespace is tolerated (it is trimmed by format), uppercase letters and
\* inner blanks are not, nor is the empty name.
validateProjectName(v) ==
  /\ trim(v) # <<>>
  /\ \A i \in 1..Len(trim(v)) : trim(v)[i] = "a"

---------------------------------------------------------------------------
\* The static template catalog.
templates == {"default", "with-drizzle", "with-prisma"}

\* The two package managers offered by the pInstallDepsManager question.
managers == {"npm", "yarn"}

---------------------------------------------------------------------------
\* Manifest (package.json).  The text of the file is described by the JSON
\* value it denotes, or is malformed.  A JavaScript value in memory is
\*   [kind, fields, items]: fields are the own named properties, items the
\*   array elements.

Keys == {"name", "version", "description", "main"}
TplValue == <<"t">>
InitialVersion == <<"0", ".", "1", ".", "0">>

NoFields == [k \in {} |-> TplValue]

ObjectTexts == {[kind |-> "object", fields |-> [k \in D |-> TplValue], items |-> <<>>] :
                  D \in SUBSET Keys}
ArrayTexts  == {[kind |-> "array", fields |-> NoFields, items |-> it] :
                  it \in {<<>>, <<TplValue>>}}
OtherTexts  == {[kind |-> k, fields |-> NoFields, items |-> <<>>] :
                  k \in {"null", "string", "malformed"}}
ManifestTexts == ObjectTexts \cup ArrayTexts \cup OtherTexts

\* JSON.parse throws a SyntaxError on malformed text.
JSONparseThrows(text) == text.kind = "malformed"
JSONparse(text) == text

\* pJson.name = ..., pJson.version = ... : assignment of a named property.
\* On null it throws a TypeError, and so it does on a primitive in the strict
\* mode of a module; on an object or an array it defines the property.
setThrows(v) == v.kind \in {"null", "string"}
setProp(v, k, x) ==
  [v EXCEPT !.fields = [j \in (DOMAIN v.fields) \cup {k} |->
                          IF j = k THEN x ELSE v.fields[j]]]

\* delete pJson.description
deleteProp(v, k) ==
  [v EXCEPT !.fields = [j \in (DOMAIN v.fields) \ {k} |-> v.fields[j]]]

\* JSON.stringify: an object is written with its own properties, an array
\* with its elements only (named properties of an array are not serialized).
JSONstringify(v) ==
  IF v.kind = "array" THEN [v EXCEPT !.fields = NoFields] ELSE v

\* Lines 155-158: the three mutations of the parsed manifest.
patchManifest_keepDescription(pJson, pName) ==
  setProp(setProp(pJson, "name", pName), "version", InitialVersion)
patchManifest(pJson, pName) ==
  deleteProp(setProp(setProp(pJson, "name", pName), "version", InitialVersion),
             "description")

---------------------------------------------------------------------------
\* State.

VARIABLES
  host,          \* tools really present on the host: [npm, yarn, git -> BOOLEAN]
  npmInstalled,  \* results of the capability probes
  yarnInstalled,
  gitInstalled,
  pc,            \* position of run(): the await it is suspended on
  typed,         \* the raw text submitted at the pName question
  answers,       \* the Answer Set: a record with the keys answered so far
  asked,         \* the questions presented so far, in order
  dirExists,     \* result of stat(dir): truthy when the path exists
  answer,        \* the answer record of the overwrite prompt
  wsExists,      \* disk: does the path dir exist
  wsFiles,       \* disk: the entries of dir
  pkgText,       \* disk: the text of dir/package.json
  tplText,       \* the manifest text of the template as cloned
  pJson,         \* the parsed manifest in memory
  rmGit,         \* the two concurrent deletions of the Manifest Patcher
  rmLock,
  started,       \* filesystem mutations and external processes started, in order
  completed,     \* those that completed successfully, in order
  execs,         \* external processes started through exec, in order
  printed,       \* lines printed through info
  exited,        \* has the process exited
  exitCode       \* its exit status

vars == <<host, npmInstalled, yarnInstalled, gitInstalled, pc, typed, answers, asked,
          dirExists, answer,
          wsExists, wsFiles, pkgText, tplText, pJson, rmGit, rmLock,
          started, completed, execs, printed, exited, exitCode>>

probeVars == <<npmInstalled, yarnInstalled, gitInstalled>>
statVars  == <<dirExists, answer>>
diskVars  == <<wsExists, wsFiles, pkgText>>
logVars   == <<started, completed, execs>>
rmVars    == <<rmGit, rmLock>>
exitVars  == <<exited, exitCode>>

\* Contents the target directory may have before the run.
PriorContents == {{}, {"old"}, {"old", "package.json"}}
PriorText == [kind |-> "object", fields |-> [k \in {"name"} |-> TplValue], items |-> <<>>]
UndefinedJson == [kind |-> "null", fields |-> NoFields, items |-> <<>>]

Questions == {"pName", "pTemplate", "pInstallDeps", "pInstallDepsManager", "pGitInit"}

\* A property read of the Answer Set used as a condition: undefined is falsy.
truthy(a, k) == k \in DOMAIN a /\ a[k]

Init ==
  /\ host \in [{"npm", "yarn", "git"} -> BOOLEAN]
  /\ npmInstalled = FALSE /\ yarnInstalled = FALSE /\ gitInstalled = FALSE
  /\ pc = "probe"
  /\ typed = <<>>
  /\ answers = [k \in {} |-> TRUE]
  /\ asked = <<>>
  /\ dirExists = FALSE
  /\ answer = [k \in {} |-> TRUE]
  /\ wsExists \in BOOLEAN
  /\ wsFiles \in (IF wsExists THEN PriorContents ELSE {{}})
  /\ pkgText = PriorText
  /\ tplText = PriorText
  /\ pJson = UndefinedJson
  /\ rmGit = "idle" /\ rmLock = "idle"
  /\ started = <<>> /\ completed = <<>> /\ execs = <<>>
  /\ printed = <<>>
  /\ exited = FALSE /\ exitCode = 0

---------------------------------------------------------------------------
\* Capability Probe (lines 47-51): pingVersion of the three tools.
Probe ==
  /\ pc = "probe"
  /\ npmInstalled' = host.npm
  /\ yarnInstalled' = host.yarn
  /\ gitInstalled' = host.git
  /\ pc' = "pName"
  /\ asked' = Append(asked, "pName")
  /\ UNCHANGED <<host, typed, statVars, answers, diskVars, tplText, pJson, rmVars, logVars,
                 printed, exitVars>>

---------------------------------------------------------------------------
\* Answer Collector (lines 53-101).

\* type of the pInstallDepsManager question: (prev) => (prev ? 'select' : null)
pInstallDepsManagerType_always(prev) == "select"
pInstallDepsManagerType(prev) == IF prev THEN "select" ELSE "null"

\* type of the pGitInit question: !gitInstalled ? null : 'confirm'
pGitInitType_always(installed) == "confirm"
pGitInitType(installed) == IF ~installed THEN "null" ELSE "confirm"

\* disabled flag of a choice of the pInstallDepsManager question
disabled(m) == IF m = "npm" THEN ~npmInstalled ELSE ~yarnInstalled

\* The question presented after the pInstallDepsManager slot, or "stat" when
\* the list is exhausted.
afterManager == IF pGitInitType(gitInstalled) = "null" THEN "stat" ELSE "pGitInit"

\* Move to position q; a question is recorded as presented.
goto(q) ==
  /\ pc' = q
  /\ asked' = IF q \in Questions THEN Append(asked, q) ELSE asked

AnswerName ==
  /\ pc = "pName"
  /\ \E v \in RawNames :
       /\ validateProjectName(v)
       /\ typed' = v
       /\ answers' = answers @@ ("pName" :> format(v))
  /\ goto("pTemplate")
  /\ UNCHANGED <<host, statVars, probeVars, diskVars, tplText, pJson, rmVars, logVars,
                 printed, exitVars>>

AnswerTemplate ==
  /\ pc = "pTemplate"
  /\ \E t \in templates : answers' = answers @@ ("pTemplate" :> t)
  /\ goto("pInstallDeps")
  /\ UNCHANGED <<host, typed, statVars, probeVars, diskVars, tplText, pJson, rmVars, logVars,
                 printed, exitVars>>

AnswerInstallDeps ==
  /\ pc = "pInstallDeps"
  /\ \E b \in BOOLEAN :
       /\ answers' = answers @@ ("pInstallDeps" :> b)
       /\ IF pInstallDepsManagerType(b) = "null"
            THEN goto(afterManager)
            ELSE goto("pInstallDepsManager")
  /\ UNCHANGED <<host, typed, statVars, probeVars, diskVars, tplText, pJson, rmVars, logVars,
                 printed, exitVars>>

\* A disabled choice cannot be submitted.
AnswerManager ==
  /\ pc = "pInstallDepsManager"
  /\ \E m \in managers :
       /\ ~disabled(m)
       /\ answers' = answers @@ ("pInstallDepsManager" :> m)
  /\ goto(afterManager)
  /\ UNCHANGED <<host, typed, statVars, probeVars, diskVars, tplText, pJson, rmVars, logVars,
                 printed, exitVars>>

AnswerGitInit ==
  /\ pc = "pGitInit"
  /\ \E b \in BOOLEAN : answers' = answers @@ ("pGitInit" :> b)
  /\ goto("stat")
  /\ UNCHANGED <<host, typed, statVars, probeVars, diskVars, tplText, pJson, rmVars, logVars,
                 printed, exitVars>>

cancelExit_status1 ==
  /\ printed' = Append(printed, <<"Operation cancelled">>)
  /\ exited' = TRUE
  /\ exitCode' = 1
  /\ pc' = "done"

\* process.exit(code) after info('Operation cancelled')
cancelExit ==
  /\ printed' = Append(printed, <<"Operation cancelled">>)
  /\ exited' = TRUE
  /\ exitCode' = 0
  /\ pc' = "done"

\* onCancel (lines 96-99): the user aborts at one of the questions.
Cancel ==
  /\ pc \in Questions
  /\ cancelExit
  /\ UNCHANGED <<host, typed, statVars, probeVars, answers, asked, diskVars, tplText, pJson,
                 rmVars, logVars>>

---------------------------------------------------------------------------
\* Workspace Preparer (lines 103-124).

\* A variant that gives up at once when the version-control client is missing.
StatDone_failFast ==
  /\ pc = "stat"
  /\ dirExists' = wsExists
  /\ IF ~gitInstalled
       THEN /\ pc' = "fatal"
            /\ UNCHANGED <<asked, started>>
       ELSE IF wsExists
         THEN /\ pc' = "pOverwrite"
              /\ asked' = Append(asked, "pOverwrite")
              /\ UNCHANGED started
         ELSE /\ pc' = "mkdir"
              /\ started' = Append(started, "mkdir")
              /\ UNCHANGED asked
  /\ UNCHANGED <<host, typed, answer, probeVars, answers, diskVars, tplText,
                 pJson, rmVars, completed, execs, printed, exitVars>>

\* stat(dir).catch(() => null), then the branch of line 106.
StatDone ==
  /\ pc = "stat"
  /\ dirExists' = wsExists
  /\ IF wsExists
       THEN /\ pc' = "pOverwrite"
            /\ asked' = Append(asked, "pOverwrite")
            /\ UNCHANGED started
       ELSE /\ pc' = "mkdir"
            /\ started' = Append(started, "mkdir")
            /\ UNCHANGED asked
  /\ UNCHANGED <<host, typed, answer, probeVars, answers, diskVars, tplText, pJson, rmVars,
                 completed, execs, printed, exitVars>>

\* A variant without the removal: mkdir is started on the existing directory.
OverwriteYes_skipRm ==
  /\ pc = "pOverwrite"
  /\ answer' = answer @@ ("pOverwrite" :> TRUE)
  /\ pc' = "mkdir"
  /\ started' = Append(started, "mkdir")
  /\ UNCHANGED <<host, typed, dirExists, probeVars, answers, asked, diskVars,
                 tplText, pJson, rmVars, completed, execs, printed, exitVars>>

\* answer.pOverwrite is true: rm(dir, { recursive: true }) is started.
OverwriteYes ==
  /\ pc = "pOverwrite"
  /\ answer' = answer @@ ("pOverwrite" :> TRUE)
  /\ pc' = "rm"
  /\ started' = Append(started, "rm")
  /\ UNCHANGED <<host, typed, dirExists, probeVars, answers, asked, diskVars, tplText, pJson,
                 rmVars, completed, execs, printed, exitVars>>

\* The else branch without its process.exit: the flow falls through to mkdir.
OverwriteNo_fallThrough ==
  /\ pc = "pOverwrite"
  /\ answer' = answer @@ ("pOverwrite" :> FALSE)
  /\ printed' = Append(printed, <<"Operation cancelled">>)
  /\ pc' = "mkdir"
  /\ started' = Append(started, "mkdir")
  /\ UNCHANGED <<host, typed, dirExists, probeVars, answers, asked, diskVars,
                 tplText, pJson, rmVars, completed, execs, exitVars>>

\* answer.pOverwrite is false, or undefined because the prompt was aborted
\* (this prompt has no onCancel): the else branch of lines 116-119.
OverwriteNo ==
  /\ pc = "pOverwrite"
  /\ \/ answer' = answer @@ ("pOverwrite" :> FALSE)
     \/ answer' = answer
  /\ cancelExit
  /\ UNCHANGED <<host, typed, dirExists, probeVars, answers, asked, diskVars, tplText, pJson,
                 rmVars, logVars>>

RmDirOk ==
  /\ pc = "rm"
  /\ wsExists' = FALSE
  /\ wsFiles' = {}
  /\ completed' = Append(completed, "rm")
  /\ pc' = "mkdir"
  /\ started' = Append(started, "mkdir")
  /\ UNCHANGED <<host, typed, statVars, probeVars, answers, asked, pkgText, tplText, pJson,
                 rmVars, execs, printed, exitVars>>

\* The recursive removal fails part-way: some entries may already be gone.
RmDirErr ==
  /\ pc = "rm"
  /\ wsFiles' \in SUBSET wsFiles
  /\ pc' = "fatal"
  /\ UNCHANGED <<host, typed, statVars, probeVars, answers, asked, wsExists, pkgText, tplText,
                 pJson, rmVars, logVars, printed, exitVars>>

\* mkdir(dir, { recursive: true }) succeeded; the clone is started.
MkdirOk ==
  /\ pc = "mkdir"
  /\ wsExists' = TRUE
  /\ completed' = Append(completed, "mkdir")
  /\ pc' = "clone"
  /\ started' = Append(started, "clone")
  /\ execs' = Append(execs, <<"git", "clone">>)
  /\ UNCHANGED <<host, typed, statVars, probeVars, answers, asked, wsFiles, pkgText, tplText,
                 pJson, rmVars, printed, exitVars>>

MkdirErr ==
  /\ pc = "mkdir"
  /\ pc' = "fatal"
  /\ UNCHANGED <<host, typed, statVars, probeVars, answers, asked, diskVars, tplText, pJson,
                 rmVars, logVars, printed, exitVars>>

---------------------------------------------------------------------------
\* Template Materializer (lines 126-142).

\* What a template repository may contain besides .git and its sources.
TemplateFiles(hasLock, hasPkg) ==
  {".git", "src"} \cup (IF hasLock THEN {"package-lock.json"} ELSE {})
                  \cup (IF hasPkg THEN {"package.json"} ELSE {})

\* git clone exits with 0: it needs the client and an empty directory.  The
\* Manifest Patcher begins by starting both deletions (Promise.all).
CloneOk ==
  /\ pc = "clone"
  /\ host.git
  /\ wsFiles = {}
  /\ \E hasLock \in BOOLEAN, hasPkg \in BOOLEAN :
     \E text \in (IF hasPkg THEN ManifestTexts ELSE {PriorText}) :
       /\ wsFiles' = TemplateFiles(hasLock, hasPkg)
       /\ tplText' = text
       /\ pkgText' = text
  /\ completed' = Append(completed, "clone")
  /\ pc' = "rmPair"
  /\ rmGit' = "pending"
  /\ rmLock' = "pending"
  /\ started' = started \o <<"rmGit", "rmLock">>
  /\ UNCHANGED <<host, typed, statVars, probeVars, answers, asked, wsExists, pJson, execs,
                 printed, exitVars>>

\* git clone fails (client missing, network, non-empty directory); it may
\* leave a partial checkout behind.
CloneErr ==
  /\ pc = "clone"
  /\ \E left \in SUBSET {".git"} : wsFiles' = wsFiles \cup left
  /\ pc' = "fatal"
  /\ UNCHANGED <<host, typed, statVars, probeVars, answers, asked, wsExists, pkgText, tplText,
                 pJson, rmVars, logVars, printed, exitVars>>

---------------------------------------------------------------------------
\* Manifest Patcher (lines 144-164).

\* Promise.all over the two deletions: it resolves when both have resolved
\* and rejects as soon as one rejects; the other deletion stays in flight
\* until it ends or the process exits.

\* rm(dir/.git, { recursive: true }) resolves.
RmGitOk ==
  /\ rmGit = "pending" /\ ~exited
  /\ ".git" \in wsFiles
  /\ wsFiles' = wsFiles \ {".git"}
  /\ rmGit' = "done"
  /\ completed' = Append(completed, "rmGit")
  /\ IF pc = "rmPair" /\ rmLock = "done"
       THEN pc' = "readFile" /\ started' = Append(started, "readFile")
       ELSE UNCHANGED <<pc, started>>
  /\ UNCHANGED <<host, typed, statVars, probeVars, answers, asked, wsExists, pkgText, tplText,
                 pJson, rmLock, execs, printed, exitVars>>

\* A variant that ignores the rejection (as the force option would for a
\* missing path): the deletion counts as resolved.
RmGitErr_ignored ==
  /\ rmGit = "pending" /\ ~exited
  /\ rmGit' = "done"
  /\ IF pc = "rmPair" /\ rmLock = "done"
       THEN pc' = "readFile" /\ started' = Append(started, "readFile")
       ELSE UNCHANGED <<pc, started>>
  /\ UNCHANGED <<host, typed, statVars, probeVars, answers, asked, diskVars,
                 tplText, pJson, rmLock, completed, execs, printed, exitVars>>

RmGitErr ==
  /\ rmGit = "pending" /\ ~exited
  /\ rmGit' = "failed"
  /\ pc' = IF pc = "rmPair" THEN "fatal" ELSE pc
  /\ UNCHANGED <<host, typed, statVars, probeVars, answers, asked, diskVars, tplText, pJson,
                 rmLock, logVars, printed, exitVars>>

\* rm(dir/package-lock.json, { recursive: true }) resolves; without the
\* force option it rejects when the file is missing.
RmLockOk ==
  /\ rmLock = "pending" /\ ~exited
  /\ "package-lock.json" \in wsFiles
  /\ wsFiles' = wsFiles \ {"package-lock.json"}
  /\ rmLock' = "done"
  /\ completed' = Append(completed, "rmLock")
  /\ IF pc = "rmPair" /\ rmGit = "done"
       THEN pc' = "readFile" /\ started' = Append(started, "readFile")
       ELSE UNCHANGED <<pc, started>>
  /\ UNCHANGED <<host, typed, statVars, probeVars, answers, asked, wsExists, pkgText, tplText,
                 pJson, rmGit, execs, printed, exitVars>>

RmLockErr ==
  /\ rmLock = "pending" /\ ~exited
  /\ rmLock' = "failed"
  /\ pc' = IF pc = "rmPair" THEN "fatal" ELSE pc
  /\ UNCHANGED <<host, typed, statVars, probeVars, answers, asked, diskVars, tplText, pJson,
                 rmGit, logVars, printed, exitVars>>

\* readFile and JSON.parse succeed and the assignments of lines 155-158 do
\* not throw: writeFile is started with the patched manifest.
ReadPatchOk ==
  /\ pc = "readFile"
  /\ "package.json" \in wsFiles
  /\ ~JSONparseThrows(pkgText)
  /\ ~setThrows(JSONparse(pkgText))
  /\ pJson' = patchManifest(JSONparse(pkgText), answers.pName)
  /\ completed' = Append(completed, "readFile")
  /\ pc' = "writeFile"
  /\ started' = Append(started, "writeFile")
  /\ UNCHANGED <<host, typed, statVars, probeVars, answers, asked, diskVars, tplText, rmVars,
                 execs, printed, exitVars>>

\* readFile rejects (missing manifest, filesystem error), JSON.parse throws
\* or the assignment to a property of null or of a primitive throws.
ReadPatchErr ==
  /\ pc = "readFile"
  /\ pc' = "fatal"
  /\ UNCHANGED <<host, typed, statVars, probeVars, answers, asked, diskVars, tplText, pJson,
                 rmVars, logVars, printed, exitVars>>

\* writeFile(dir/package.json, JSON.stringify(pJson, null, 2)) resolves.
WriteOk ==
  /\ pc = "writeFile"
  /\ pkgText' = JSONstringify(pJson)
  /\ completed' = Append(completed, "writeFile")
  /\ pc' = "patched"
  /\ UNCHANGED <<host, typed, statVars, probeVars, answers, asked, wsExists, wsFiles, tplText,
                 pJson, rmVars, started, execs, printed, exitVars>>

WriteErr ==
  /\ pc = "writeFile"
  /\ pc' = "fatal"
  /\ UNCHANGED <<host, typed, statVars, probeVars, answers, asked, diskVars, tplText, pJson,
                 rmVars, logVars, printed, exitVars>>

---------------------------------------------------------------------------
\* Optional Initializers (lines 166-200).

\* if (answers.pGitInit)
shouldGitInit_always(a) == TRUE
shouldGitInit(a) == truthy(a, "pGitInit")

\* if (answers.pInstallDeps)
shouldInstall_always(a) == TRUE
shouldInstall(a) == truthy(a, "pInstallDeps")

\* `${answers.pInstallDepsManager}` in a template literal
managerText(a) ==
  IF "pInstallDepsManager" \in DOMAIN a THEN a.pInstallDepsManager ELSE "undefined"

\* exec('git init', { cwd: dir }, ...) is started.
GitInitStart ==
  /\ pc = "patched"
  /\ shouldGitInit(answers)
  /\ pc' = "gitInit"
  /\ started' = Append(started, "gitInit")
  /\ execs' = Append(execs, <<"git", "init">>)
  /\ UNCHANGED <<host, typed, statVars, probeVars, answers, asked, diskVars, tplText, pJson,
                 rmVars, completed, printed, exitVars>>

\* The condition of line 166 is false.
GitInitSkip ==
  /\ pc = "patched"
  /\ ~shouldGitInit(answers)
  /\ pc' = "inited"
  /\ UNCHANGED <<host, typed, statVars, probeVars, answers, asked, diskVars, tplText, pJson,
                 rmVars, logVars, printed, exitVars>>

GitInitOk ==
  /\ pc = "gitInit"
  /\ host.git
  /\ wsFiles' = wsFiles \cup {".git"}
  /\ completed' = Append(completed, "gitInit")
  /\ pc' = "inited"
  /\ UNCHANGED <<host, typed, statVars, probeVars, answers, asked, wsExists, pkgText, tplText,
                 pJson, rmVars, started, execs, printed, exitVars>>

GitInitErr ==
  /\ pc = "gitInit"
  /\ pc' = "fatal"
  /\ UNCHANGED <<host, typed, statVars, probeVars, answers, asked, diskVars, tplText, pJson,
                 rmVars, logVars, printed, exitVars>>

\* exec(`${answers.pInstallDepsManager} install`, { cwd: dir }, ...) is started.
InstallStart ==
  /\ pc = "inited"
  /\ shouldInstall(answers)
  /\ pc' = "install"
  /\ started' = Append(started, "install")
  /\ execs' = Append(execs, <<managerText(answers), "install">>)
  /\ UNCHANGED <<host, typed, statVars, probeVars, answers, asked, diskVars, tplText, pJson,
                 rmVars, completed, printed, exitVars>>

\* The condition of line 182 is false.
InstallSkip ==
  /\ pc = "inited"
  /\ ~shouldInstall(answers)
  /\ pc' = "reporter"
  /\ UNCHANGED <<host, typed, statVars, probeVars, answers, asked, diskVars, tplText, pJson,
                 rmVars, logVars, printed, exitVars>>

\* The lockfile written by an install of manager m.
LockfileOf(m) == IF m = "npm" THEN "package-lock.json" ELSE "yarn.lock"

InstallOk ==
  /\ pc = "install"
  /\ managerText(answers) \in managers
  /\ host[managerText(answers)]
  /\ wsFiles' = wsFiles \cup {"node_modules", LockfileOf(managerText(answers))}
  /\ completed' = Append(completed, "install")
  /\ pc' = "reporter"
  /\ UNCHANGED <<host, typed, statVars, probeVars, answers, asked, wsExists, pkgText, tplText,
                 pJson, rmVars, started, execs, printed, exitVars>>

InstallErr ==
  /\ pc = "install"
  /\ pc' = "fatal"
  /\ UNCHANGED <<host, typed, statVars, probeVars, answers, asked, diskVars, tplText, pJson,
                 rmVars, logVars, printed, exitVars>>

---------------------------------------------------------------------------
\* Reporter (lines 202-211).

\* The three info lines; a command line is <<command, operand>>.
messages(a) ==
  << <<"Your project is ready to go">>,
     <<"cd", a.pName>>,
     <<"run dev", managerText(a)>> >>

Reporter ==
  /\ pc = "reporter"
  /\ printed' = printed \o messages(answers)
  /\ exited' = TRUE
  /\ exitCode' = 0
  /\ pc' = "done"
  /\ UNCHANGED <<host, typed, statVars, probeVars, answers, asked, diskVars, tplText, pJson,
                 rmVars, logVars>>

\* A variant that reports the error and exits with status 0.
FatalExit_status0 ==
  /\ pc = "fatal"
  /\ exited' = TRUE
  /\ exitCode' = 0
  /\ pc' = "done"
  /\ UNCHANGED <<host, typed, statVars, probeVars, answers, asked, diskVars,
                 tplText, pJson, rmVars, logVars, printed>>

\* runMain(main): a rejection of run() is reported and the process exits
\* with status 1.
FatalExit ==
  /\ pc = "fatal"
  /\ exited' = TRUE
  /\ exitCode' = 1
  /\ pc' = "done"
  /\ UNCHANGED <<host, typed, statVars, probeVars, answers, asked, diskVars, tplText, pJson,
                 rmVars, logVars, printed>>

---------------------------------------------------------------------------
Next ==
  \/ Probe
  \/ AnswerName \/ AnswerTemplate \/ AnswerInstallDeps \/ AnswerManager
  \/ AnswerGitInit \/ Cancel
  \/ StatDone \/ OverwriteYes \/ OverwriteNo
  \/ RmDirOk \/ RmDirErr \/ MkdirOk \/ MkdirErr
  \/ CloneOk \/ CloneErr
  \/ RmGitOk \/ RmGitErr \/ RmLockOk \/ RmLockErr
  \/ ReadPatchOk \/ ReadPatchErr \/ WriteOk \/ WriteErr
  \/ GitInitStart \/ GitInitSkip \/ GitInitOk \/ GitInitErr
  \/ InstallStart \/ InstallSkip \/ InstallOk \/ InstallErr
  \/ Reporter \/ FatalExit

Spec == Init /\ [][Next]_vars

TypeOK ==
  /\ pc \in {"probe", "stat", "pOverwrite", "rm", "mkdir", "clone", "rmPair",
             "readFile", "writeFile", "patched", "gitInit", "inited",
             "install", "reporter", "fatal", "done"} \cup Questions
  /\ DOMAIN answers \subseteq Questions
  /\ exitCode \in {0, 1}
  /\ rmGit \in {"idle", "pending", "done", "failed"}
  /\ rmLock \in {"idle", "pending", "done", "failed"}

---------------------------------------------------------------------------
\* Properties.

Has(seq, x) == \E i \in 1..Len(seq) : seq[i] = x
Last(seq) == seq[Len(seq)]

\* The Reporter has printed its closing block.
reported == Len(printed) = 3
\* The run ended through one of the two 'Operation cancelled' exits.
cancelled == exited /\ printed = << <<"Operation cancelled">> >>
\* The last question presented was left without an answer: the user aborted.
aborted ==
  /\ cancelled
  /\ asked # <<>>
  /\ Last(asked) \notin (DOMAIN answers) \cup (DOMAIN answer)

\* C1: when stat found the target directory, no filesystem mutation and no
\* external process is started unless the overwrite prompt was answered yes;
\* a run that ends without that yes ends with status 0 and nothing started;
\* and as long as nothing was started the disk does not change.
C1_NoMutationBeforeConfirm ==
  /\ [](dirExists /\ ~truthy(answer, "pOverwrite") =>
          /\ started = <<>> /\ execs = <<>> /\ completed = <<>>
          /\ (exited => exitCode = 0))
  /\ [][started' = <<>> => UNCHANGED diskVars]_vars

C1_Witness ==
  /\ dirExists /\ exited
  /\ "pOverwrite" \in DOMAIN answer /\ ~answer.pOverwrite
  /\ wsExists /\ wsFiles = {"old", "package.json"}

\* A step taken at a prompt that records no answer: the prompt was aborted.
abortStep ==
  /\ pc \in Questions \cup {"pOverwrite"}
  /\ answers' = answers
  /\ answer' = answer

\* C2: a run aborted at any prompt (a question of the Answer Collector or the
\* overwrite prompt) has exited with status 0 and has started no filesystem
\* mutation and no external process; the step that aborts leaves the disk as
\* it was.
C2_AbortIsCleanExit ==
  /\ [](aborted => exitCode = 0 /\ started = <<>> /\ execs = <<>>)
  /\ [][aborted' /\ ~exited => UNCHANGED diskVars]_vars
  /\ [][abortStep => exited' /\ exitCode' = 0]_vars

C2_Witness ==
  /\ aborted
  /\ Last(asked) = "pOverwrite"
  /\ wsFiles = {"old"}
  /\ "pGitInit" \in DOMAIN answers

\* n is raw without its leading and trailing blanks.
IsTrimOf(n, raw) ==
  /\ n # <<>> => (Head(n) # " " /\ Last(n) # " ")
  /\ \E i \in 0..Len(raw) :
       /\ i + Len(n) <= Len(raw)
       /\ SubSeq(raw, i + 1, i + Len(n)) = n
       /\ \A j \in 1..Len(raw) : (j <= i \/ j > i + Len(n)) => raw[j] = " "

\* The manifest on disk carries the patched fields and passes the others through.
manifestPatched ==
  /\ "package.json" \in wsFiles
  /\ pkgText.kind = tplText.kind
  /\ pkgText.items = tplText.items
  /\ "name" \in DOMAIN pkgText.fields
  /\ pkgText.fields.name = answers.pName
  /\ IsTrimOf(pkgText.fields.name, typed)
  /\ "version" \in DOMAIN pkgText.fields
  /\ pkgText.fields.version = InitialVersion
  /\ "description" \notin DOMAIN pkgText.fields
  /\ \A k \in Keys \ {"name", "version", "description"} :
       /\ k \in DOMAIN pkgText.fields <=> k \in DOMAIN tplText.fields
       /\ k \in DOMAIN pkgText.fields => pkgText.fields[k] = tplText.fields[k]

\* C3 as stated: after every successful run, whatever the manifest of the
\* template was, name is the trimmed project name, version is 0.1.0,
\* description is absent and every other field is as in the template.
C3_Original == reported => manifestPatched

\* C3 amended: the same, for every template manifest that is a JSON object.
C3_ManifestPatched == reported /\ tplText.kind = "object" => manifestPatched

C3_Witness ==
  /\ reported
  /\ tplText.kind = "object"
  /\ DOMAIN tplText.fields = Keys
  /\ typed = <<" ", "a", " ">>

\* The run has failed: run() rejected, or the process exited with a status
\* other than 0.
failed == pc = "fatal" \/ (exited /\ exitCode # 0)

\* After a failure no step is started, nothing is printed, and the only move
\* of the flow is the exit, with a non-zero status.
failStop ==
  /\ started' = started /\ execs' = execs /\ printed' = printed
  /\ pc' # pc => (pc' = "done" /\ exited' /\ exitCode' # 0)

\* C4 as stated: once a step after Workspace creation has failed, no later
\* step is started, the Reporter is not reached, the exit status is non-zero
\* and the Workspace stays exactly as it was at the failure.
C4_Original ==
  /\ [][pc = "fatal" /\ Has(completed, "mkdir") =>
          failStop /\ UNCHANGED diskVars]_vars
  /\ [](failed => ~reported)

\* C4 amended: as stated, except that the other of the two concurrent
\* deletions (.git, package-lock.json), already in flight when the first one
\* failed, may still complete before the process exits; nothing else of the
\* Workspace changes and the directory itself stays.
C4_FailStop ==
  /\ [][pc = "fatal" /\ Has(completed, "mkdir") =>
          /\ failStop
          /\ wsExists /\ wsExists' /\ pkgText' = pkgText
          /\ wsFiles' \subseteq wsFiles
          /\ wsFiles' # wsFiles =>
               \/ rmGit = "pending" /\ wsFiles \ wsFiles' = {".git"}
               \/ rmLock = "pending" /\ wsFiles \ wsFiles' = {"package-lock.json"}]_vars
  /\ [](failed => ~reported)
  /\ [](exited /\ exitCode # 0 /\ Has(completed, "mkdir") => wsExists)
  /\ [][exited => UNCHANGED vars]_vars

\* The lockfile deletion failed first and the .git deletion then completed.
C4_Witness ==
  /\ exited /\ exitCode # 0
  /\ rmLock = "failed" /\ rmGit = "done"
  /\ wsFiles = {"src", "package.json"}
  /\ started = <<"mkdir", "clone", "rmGit", "rmLock">>

\* C5: once the probe has reported the version-control client as absent, the
\* pGitInit question is never presented, the Answer Set has no pGitInit key
\* and no git init process is started.
C5_NoGitInitWithoutGit ==
  pc # "probe" /\ ~gitInstalled =>
    /\ ~Has(asked, "pGitInit")
    /\ "pGitInit" \notin DOMAIN answers
    /\ ~Has(execs, <<"git", "init">>)
    /\ ~Has(started, "gitInit")

C5_Witness ==
  /\ ~gitInstalled
  /\ asked = <<"pName", "pTemplate", "pInstallDeps", "pInstallDepsManager">>
  /\ Has(started, "clone")
  /\ exited

\* An install process of a package manager was started.
installInvoked ==
  \/ Has(started, "install")
  \/ \E i \in 1..Len(execs) : execs[i][2] = "install" \/ execs[i][1] \in managers

C7_OverwriteEmptiesFirst ==
  dirExists =>
    /\ Has(started, "mkdir") => (completed # <<>> /\ completed[1] = "rm")
    /\ pc = "mkdir" => (~wsExists /\ wsFiles = {})
    /\ pc = "clone" => (wsExists /\ wsFiles = {})

C7_Witness ==
  /\ dirExists /\ truthy(answer, "pOverwrite")
  /\ pc = "clone"
  /\ completed = <<"rm", "mkdir">>
  /\ wsFiles = {}

\* C8 as stated: the Reporter prints `cd <project name>` and then
\* `<manager> run dev` with the manager chosen in the Answer Set, npm or yarn,
\* for every Answer Set, and the process exits with status 0.
C8_ReporterCommands ==
  reported =>
    /\ printed[2] = <<"cd", answers.pName>>
    /\ printed[3][1] = "run dev"
    /\ printed[3][2] \in managers
    /\ "pInstallDepsManager" \in DOMAIN answers
    /\ printed[3][2] = answers.pInstallDepsManager
    /\ exited /\ exitCode = 0

\* The fixed order of the steps.
StepOrder == <<"rm", "mkdir", "clone", "rmGit", "rmLock", "readFile",
               "writeFile", "gitInit", "install">>
Rank(x) == CHOOSE i \in 1..Len(StepOrder) : StepOrder[i] = x

\* The steps that must have completed before step x is started.
Prerequisites(x) ==
  CASE x = "rm"        -> {}
    [] x = "mkdir"     -> {}
    [] x = "clone"     -> {"mkdir"}
    [] x = "rmGit"     -> {"mkdir", "clone"}
    [] x = "rmLock"    -> {"mkdir", "clone"}
    [] x = "readFile"  -> {"mkdir", "clone", "rmGit", "rmLock"}
    [] x = "writeFile" -> {"mkdir", "clone", "rmGit", "rmLock", "readFile"}
    [] x = "gitInit"   -> {"mkdir", "clone", "rmGit", "rmLock", "readFile", "writeFile"}
    [] x = "install"   -> {"mkdir", "clone", "rmGit", "rmLock", "readFile", "writeFile"}

Range(seq) == {seq[i] : i \in 1..Len(seq)}

\* C9: the steps are started in the fixed order, each at most once and only
\* after the steps before it completed; none is started before the answers
\* are collected; an optional step that was started precedes the later ones;
\* the Reporter is reached only after every step that applies completed; the
\* template's .git is gone when git init is started.
C9_StepOrder ==
  /\ \A i, j \in 1..Len(started) : i < j => Rank(started[i]) < Rank(started[j])
  /\ \A i, j \in 1..Len(completed) : i < j => completed[i] # completed[j]
  /\ \A i, j \in 1..Len(execs) : i < j => execs[i] # execs[j]
  /\ Range(completed) \subseteq Range(started)
  /\ \A x \in Range(started) : Prerequisites(x) \subseteq Range(completed)
  /\ started # <<>> =>
       /\ {"pName", "pTemplate", "pInstallDeps"} \subseteq DOMAIN answers
       /\ pc \notin Questions \cup {"probe", "stat"}
  /\ Has(started, "rm") /\ Has(started, "mkdir") => Has(completed, "rm")
  /\ Has(started, "gitInit") /\ Has(started, "install") => Has(completed, "gitInit")
  /\ Has(started, "gitInit") /\ ~Has(completed, "gitInit") => ".git" \notin wsFiles
  /\ reported =>
       /\ Range(started) = Range(completed)
       /\ {"mkdir", "clone", "rmGit", "rmLock", "readFile", "writeFile"}
            \subseteq Range(completed)
       /\ truthy(answers, "pGitInit") <=> Has(completed, "gitInit")
       /\ truthy(answers, "pInstallDeps") <=> Has(completed, "install")

C9_Witness ==
  /\ reported
  /\ completed = StepOrder
  /\ execs = << <<"git", "clone">>, <<"git", "init">>, <<"yarn", "install">> >>

\* C10: with the version-control client reported absent (it is absent), the
\* Reporter is never reached; the flow does not stop before it has started to
\* mutate the Workspace; the clone is still started, after the Workspace was
\* created (and the prior directory removed when there was one), and it can
\* only fail, so the run ends with a non-zero status.
C10_AbsentClientFailsLate ==
  pc # "probe" /\ ~gitInstalled =>
    /\ ~host.git
    /\ ~reported
    /\ failed => started # <<>>
    /\ Has(started, "clone") =>
         /\ Has(completed, "mkdir") /\ wsExists
         /\ dirExists => Has(completed, "rm")
         /\ ~Has(completed, "clone")
         /\ pc \in {"clone", "fatal", "done"}
         /\ exited => exitCode # 0
    /\ pc = "mkdir" \/ Has(completed, "mkdir") =>
         (pc = "mkdir" \/ Has(execs, <<"git", "clone">>))

C10_Witness ==
  /\ ~gitInstalled
  /\ exited /\ exitCode # 0
  /\ dirExists
  /\ completed = <<"rm", "mkdir">>
  /\ started = <<"rm", "mkdir", "clone">>

====
